---- MODULE Spec2Model ----
(***************************************************************************)
(* Intcode virtual machine of advent-of-code-2019.                         *)
(*                                                                         *)
(* intcode/src/lib.rs holds the decoder (OpCode::try_from), the parameter  *)
(* resolver (Parameter::get / Parameter::set), the command reader          *)
(* (Command::read_command), the instruction semantics (Command::execute)   *)
(* and the driver loop run_intcode.  day-5 and day-7 drive the machine     *)
(* abstraction (IntCodeMachine, Machine, Pipe) whose bodies are not part   *)
(* of the sources at hand; those are modelled from the specification on    *)
(* top of the decoder, resolver and instruction semantics of lib.rs.       *)
(*                                                                         *)
(* Memory addresses are 0-based as in the program; a memory is a TLA+      *)
(* sequence, so cell a of mem is mem[a + 1].                               *)
(***************************************************************************)
EXTENDS Integers, Sequences, FiniteSets, TLC

\* ------------------------------------------------------------------ bounds
\* Longest program of the generated family (every sequence over Alphabet).
MaxProgLen == 2
\* Input values one run supplies in all (to run_intcode, or over all calls).
MaxInputs == 2
\* Number of execute calls one driver makes.
MaxCalls == 2
\* Cycles one execute call may run before it is taken not to return.
MaxCycles == 12
\* Execute calls run_to_completion may make before it is taken not to return.
MaxRounds == 3

\* ------------------------------------------------- Rust integer arithmetic
\* isize `/` and `%` truncate toward zero (TLA+ \div and % floor).  Sums and
\* products stay far inside the range of isize for the programs and inputs
\* below, so `+` and `*` are the integer operations.
Quot(a, b) == IF a >= 0 THEN a \div b ELSE -((-a) \div b)

Rem_floors(a, b) == a % b

Rem(a, b) == IF a >= 0 THEN a % b ELSE -((-a) % b)

Min_takes_last(S) == CHOOSE x \in S : \A y \in S : x >= y

Min(S) == CHOOSE x \in S : \A y \in S : x <= y

\* ------------------------------------------------------------------ decoder
ParameterMode_try_from(value) ==
    IF value = 0 THEN [err |-> "Ok", mode |-> "Reference", arg |-> value]
    ELSE IF value = 1 THEN [err |-> "Ok", mode |-> "Immediate", arg |-> value]
    ELSE [err |-> "InvalidParameterMode", mode |-> "-", arg |-> value]

num_args_exit_one(op) ==
    CASE op \in {"Add", "Multiply", "LessThan", "Equals"} -> 3
      [] op \in {"Input", "Output", "Exit"} -> 1
      [] op \in {"JumpIfTrue", "JumpIfFalse"} -> 2

num_args(op) ==
    CASE op \in {"Add", "Multiply", "LessThan", "Equals"} -> 3
      [] op \in {"Input", "Output"} -> 1
      [] op \in {"JumpIfTrue", "JumpIfFalse"} -> 2
      [] op = "Exit" -> 0

params_from_high_digit(value, k) ==
    LET modes == Quot(value, 100)
    IN  CASE k = 1 -> ParameterMode_try_from(Rem(Quot(modes, 100), 10))
          [] k = 2 -> ParameterMode_try_from(Rem(Quot(modes, 10), 10))
          [] k = 3 -> ParameterMode_try_from(Rem(modes, 10))

\* params!(k): the mode of operand k, from the digits of value / 100.
params(value, k) ==
    LET modes == Quot(value, 100)
    IN  CASE k = 1 -> ParameterMode_try_from(Rem(modes, 10))
          [] k = 2 -> ParameterMode_try_from(Rem(Quot(modes, 10), 10))
          [] k = 3 -> ParameterMode_try_from(Rem(Quot(modes, 100), 10))

Arm_validates_three(op, n, value) ==
    LET bad == {k \in 1..3 : params(value, k).err # "Ok"}
    IN  IF bad # {}
        THEN [err |-> "InvalidParameterMode", arg |-> params(value, Min(bad)).arg,
              op |-> "-", modes |-> <<>>]
        ELSE [err |-> "Ok", arg |-> 0, op |-> op,
              modes |-> [k \in 1..n |-> params(value, k).mode]]

\* One arm of the match: the operation with the modes of its n operands,
\* evaluated left to right, the first failing `?` deciding the error.
Arm(op, n, value) ==
    LET bad == {k \in 1..n : params(value, k).err # "Ok"}
    IN  IF bad # {}
        THEN [err |-> "InvalidParameterMode", arg |-> params(value, Min(bad)).arg,
              op |-> "-", modes |-> <<>>]
        ELSE [err |-> "Ok", arg |-> 0, op |-> op,
              modes |-> [k \in 1..n |-> params(value, k).mode]]

InvalidOpCode_as_exit(value) ==
    [err |-> "Ok", arg |-> 0, op |-> "Exit", modes |-> <<>>]

\* Err(IntCodeError::InvalidOpCode(*value))
InvalidOpCode(value) ==
    [err |-> "InvalidOpCode", arg |-> value, op |-> "-", modes |-> <<>>]

OpCode_try_from(value) ==
    LET code == Rem(value, 100)
    IN  CASE code = 1 -> Arm("Add", 3, value)
          [] code = 2 -> Arm("Multiply", 3, value)
          [] code = 3 -> Arm("Input", 1, value)
          [] code = 4 -> Arm("Output", 1, value)
          [] code = 5 -> Arm("JumpIfTrue", 2, value)
          [] code = 6 -> Arm("JumpIfFalse", 2, value)
          [] code = 7 -> Arm("LessThan", 3, value)
          [] code = 8 -> Arm("Equals", 3, value)
          [] code = 99 -> [err |-> "Ok", arg |-> 0, op |-> "Exit", modes |-> <<>>]
          [] OTHER -> InvalidOpCode(value)

\* ------------------------------------------------------- parameter resolver
\* arr[address] panics (index out of bounds) when address >= arr.len().
Parameter_get_casts(p, arr) ==
    IF p.mode = "Immediate" THEN [err |-> "Ok", value |-> p.value]
    ELSE IF p.value < 0 \/ p.value >= Len(arr) THEN [err |-> "Panic", value |-> 0]
    ELSE [err |-> "Ok", value |-> arr[p.value + 1]]

Parameter_get(p, arr) ==
    IF p.mode = "Immediate" THEN [err |-> "Ok", value |-> p.value]
    ELSE IF p.value < 0 THEN [err |-> "InvalidAddress", value |-> 0]
    ELSE IF p.value >= Len(arr) THEN [err |-> "Panic", value |-> 0]
    ELSE [err |-> "Ok", value |-> arr[p.value + 1]]

Parameter_set_fills(p, value, arr) ==
    IF p.mode = "Immediate" THEN [err |-> "ImmediateModeOutput", arr |-> arr]
    ELSE IF p.value < 0 THEN [err |-> "InvalidAddress", arr |-> arr]
    ELSE IF p.value >= Len(arr) THEN [err |-> "Panic", arr |-> arr]
    ELSE [err |-> "Ok",
          arr |-> [k \in 1..Len(arr) |-> IF k >= p.value + 1 THEN value ELSE arr[k]]]

Parameter_set_grows(p, value, arr) ==
    IF p.mode = "Immediate" THEN [err |-> "ImmediateModeOutput", arr |-> arr]
    ELSE IF p.value < 0 THEN [err |-> "InvalidAddress", arr |-> arr]
    ELSE [err |-> "Ok",
          arr |-> [k \in 1..(IF p.value >= Len(arr) THEN p.value + 1 ELSE Len(arr)) |->
                      IF k = p.value + 1 THEN value
                      ELSE IF k <= Len(arr) THEN arr[k] ELSE 0]]

Parameter_set_skips_immediate(p, value, arr) ==
    IF p.mode = "Immediate" THEN [err |-> "Ok", arr |-> arr]
    ELSE IF p.value < 0 THEN [err |-> "InvalidAddress", arr |-> arr]
    ELSE IF p.value >= Len(arr) THEN [err |-> "Panic", arr |-> arr]
    ELSE [err |-> "Ok", arr |-> [arr EXCEPT ![p.value + 1] = value]]

Parameter_set(p, value, arr) ==
    IF p.mode = "Immediate" THEN [err |-> "ImmediateModeOutput", arr |-> arr]
    ELSE IF p.value < 0 THEN [err |-> "InvalidAddress", arr |-> arr]
    ELSE IF p.value >= Len(arr) THEN [err |-> "Panic", arr |-> arr]
    ELSE [err |-> "Ok", arr |-> [arr EXCEPT ![p.value + 1] = value]]

\* ----------------------------------------------------------- command reader
\* The iterator is memory[instruction_pointer..]; rest is the number of cells
\* it still holds.
read_next(memory, ip) ==
    IF ip >= Len(memory) THEN [err |-> "UnexpectedEndOfFile", value |-> 0]
    ELSE [err |-> "Ok", value |-> memory[ip + 1]]

read_args_pads(memory, ip, num) ==
    [err |-> "Ok",
     values |-> [k \in 1..num |-> IF ip + k <= Len(memory) THEN memory[ip + k] ELSE 0]]

read_args(memory, ip, num) ==
    IF Len(memory) - ip < num THEN [err |-> "UnexpectedEndOfFile", values |-> <<>>]
    ELSE [err |-> "Ok", values |-> [k \in 1..num |-> memory[ip + k]]]

from_op_code(op, memory, ip) ==
    LET len == num_args(op.op)
        args == read_args(memory, ip, len)
    IN  IF args.err # "Ok"
        THEN [err |-> args.err, arg |-> 0, op |-> "-", params |-> <<>>]
        ELSE [err |-> "Ok", arg |-> 0, op |-> IF op.op = "Exit" THEN "Stop" ELSE op.op,
              params |-> [k \in 1..len |->
                             [mode |-> op.modes[k], value |-> args.values[k]]]]

read_command_counts_operands(memory, ip) ==
    LET Read(op_code, command) ==
            [err |-> command.err, arg |-> 0, advance |-> num_args(op_code.op),
             op |-> command.op, params |-> command.params]
        Decoded(op_code) ==
            IF op_code.err # "Ok"
            THEN [err |-> op_code.err, arg |-> op_code.arg, advance |-> 0,
                  op |-> "-", params |-> <<>>]
            ELSE Read(op_code, from_op_code(op_code, memory, ip + 1))
        cell == read_next(memory, ip)
    IN  IF cell.err # "Ok"
        THEN [err |-> cell.err, arg |-> 0, advance |-> 0, op |-> "-", params |-> <<>>]
        ELSE Decoded(OpCode_try_from(cell.value))

\* (advance, command) or the first error of reading the opcode cell, decoding
\* it, and reading its operand cells.
read_command(memory, ip) ==
    LET Read(op_code, command) ==
            [err |-> command.err, arg |-> 0, advance |-> num_args(op_code.op) + 1,
             op |-> command.op, params |-> command.params]
        Decoded(op_code) ==
            IF op_code.err # "Ok"
            THEN [err |-> op_code.err, arg |-> op_code.arg, advance |-> 0,
                  op |-> "-", params |-> <<>>]
            ELSE Read(op_code, from_op_code(op_code, memory, ip + 1))
        cell == read_next(memory, ip)
    IN  IF cell.err # "Ok"
        THEN [err |-> cell.err, arg |-> 0, advance |-> 0, op |-> "-", params |-> <<>>]
        ELSE Decoded(OpCode_try_from(cell.value))

\* ------------------------------------------------------ instruction effects
\* Ok(None) / Ok(Some(jump)) / Err of Command::execute, with the memory, the
\* unread input lines and the lines written to output.  An Input reads one
\* line; at end of input the line is empty and fails to parse.
Done(memory, input, emitted) ==
    [err |-> "Ok", memory |-> memory, jumped |-> FALSE, jump |-> 0,
     input |-> input, emitted |-> emitted]

Jump(memory, input, target) ==
    [err |-> "Ok", memory |-> memory, jumped |-> TRUE, jump |-> target,
     input |-> input, emitted |-> <<>>]

Fail(err, memory, input) ==
    [err |-> err, memory |-> memory, jumped |-> FALSE, jump |-> 0,
     input |-> input, emitted |-> <<>>]

Computed_sum_for_product(op, a, b) ==
    CASE op \in {"Add", "Multiply"} -> a + b
      [] op = "LessThan" -> IF a < b THEN 1 ELSE 0
      [] op = "Equals" -> IF a = b THEN 1 ELSE 0

Written_nothing(memory, input, value) == Done(memory, input, <<>>)

\* write!(output, "{}\n", value)
Written(memory, input, value) == Done(memory, input, <<value>>)

\* The value an Add, Multiply, LessThan or Equals stores.
Computed(op, a, b) ==
    CASE op = "Add" -> a + b
      [] op = "Multiply" -> a * b
      [] op = "LessThan" -> IF a < b THEN 1 ELSE 0
      [] op = "Equals" -> IF a = b THEN 1 ELSE 0

Store3_into_first(op, x, y, result, memory, input) ==
    LET a == Parameter_get(x, memory)
        b == Parameter_get(y, memory)
    IN  IF a.err # "Ok" THEN Fail(a.err, memory, input)
        ELSE IF b.err # "Ok" THEN Fail(b.err, memory, input)
        ELSE LET w == Parameter_set(x, Computed(op, a.value, b.value), memory)
             IN  IF w.err # "Ok" THEN Fail(w.err, memory, input)
                 ELSE Done(w.arr, input, <<>>)

\* result.set(f(x.get(memory)?, y.get(memory)?), memory)?
Store3(op, x, y, result, memory, input) ==
    LET a == Parameter_get(x, memory)
        b == Parameter_get(y, memory)
    IN  IF a.err # "Ok" THEN Fail(a.err, memory, input)
        ELSE IF b.err # "Ok" THEN Fail(b.err, memory, input)
        ELSE LET w == Parameter_set(result, Computed(op, a.value, b.value), memory)
             IN  IF w.err # "Ok" THEN Fail(w.err, memory, input)
                 ELSE Done(w.arr, input, <<>>)

JumpIf_to_condition(op, cond, address, memory, input) ==
    LET c == Parameter_get(cond, memory)
        t == Parameter_get(address, memory)
        taken == IF op = "JumpIfTrue" THEN c.value # 0 ELSE c.value = 0
    IN  IF c.err # "Ok" THEN Fail(c.err, memory, input)
        ELSE IF ~taken THEN Done(memory, input, <<>>)
        ELSE IF t.err # "Ok" THEN Fail(t.err, memory, input)
        ELSE IF c.value < 0 THEN Fail("InvalidAddress", memory, input)
        ELSE Jump(memory, input, c.value)

JumpIf_conditions_swapped(op, cond, address, memory, input) ==
    LET c == Parameter_get(cond, memory)
        t == Parameter_get(address, memory)
        taken == IF op = "JumpIfTrue" THEN c.value = 0 ELSE c.value # 0
    IN  IF c.err # "Ok" THEN Fail(c.err, memory, input)
        ELSE IF ~taken THEN Done(memory, input, <<>>)
        ELSE IF t.err # "Ok" THEN Fail(t.err, memory, input)
        ELSE IF t.value < 0 THEN Fail("InvalidAddress", memory, input)
        ELSE Jump(memory, input, t.value)

JumpIf_unsigned_cast(op, cond, address, memory, input) ==
    LET c == Parameter_get(cond, memory)
        t == Parameter_get(address, memory)
        taken == IF op = "JumpIfTrue" THEN c.value # 0 ELSE c.value = 0
    IN  IF c.err # "Ok" THEN Fail(c.err, memory, input)
        ELSE IF ~taken THEN Done(memory, input, <<>>)
        ELSE IF t.err # "Ok" THEN Fail(t.err, memory, input)
        ELSE Jump(memory, input, t.value)

\* if cond.get(memory)? != 0 (== 0) { return Ok(Some(address.get(memory)?.try_into()?)) }
JumpIf(op, cond, address, memory, input) ==
    LET c == Parameter_get(cond, memory)
        t == Parameter_get(address, memory)
        taken == IF op = "JumpIfTrue" THEN c.value # 0 ELSE c.value = 0
    IN  IF c.err # "Ok" THEN Fail(c.err, memory, input)
        ELSE IF ~taken THEN Done(memory, input, <<>>)
        ELSE IF t.err # "Ok" THEN Fail(t.err, memory, input)
        ELSE IF t.value < 0 THEN Fail("InvalidAddress", memory, input)
        ELSE Jump(memory, input, t.value)

Command_execute(command, memory, input) ==
    LET p == command.params
    IN  CASE command.op = "Stop" -> Done(memory, input, <<>>)
          [] command.op \in {"Add", "Multiply", "LessThan", "Equals"} ->
                Store3(command.op, p[1], p[2], p[3], memory, input)
          [] command.op = "Input" ->
                IF input = <<>> THEN Fail("ParseError", memory, input)
                ELSE LET w == Parameter_set(p[1], Head(input), memory)
                     IN  IF w.err # "Ok" THEN Fail(w.err, memory, Tail(input))
                         ELSE Done(w.arr, Tail(input), <<>>)
          [] command.op = "Output" ->
                LET v == Parameter_get(p[1], memory)
                IN  IF v.err # "Ok" THEN Fail(v.err, memory, input)
                    ELSE Written(memory, input, v.value)
          [] command.op \in {"JumpIfTrue", "JumpIfFalse"} ->
                JumpIf(command.op, p[1], p[2], memory, input)

\* One iteration of the loop of run_intcode on (memory, instruction_pointer):
\* result is "Running" while the loop goes on, "Ok" when it returned
\* Ok(output), and the error otherwise; arg is the value the error carries
\* (InvalidOpCode(value), InvalidParameterMode(value)), 0 where it has none;
\* jumped tells whether the iteration assigned the pointer from Ok(Some(jump)).
run_intcode_loop(mem, ip, inp) ==
    LET Executed(rc, ex) ==
            IF ex.err # "Ok"
            THEN [result |-> ex.err, arg |-> 0, memory |-> ex.memory, ip |-> ip,
                  input |-> ex.input, emitted |-> ex.emitted, jumped |-> FALSE]
            ELSE [result |-> "Running", arg |-> 0, memory |-> ex.memory,
                  ip |-> IF ex.jumped THEN ex.jump ELSE ip + rc.advance,
                  input |-> ex.input, emitted |-> ex.emitted, jumped |-> ex.jumped]
        Read(rc) ==
            IF rc.err # "Ok"
            THEN [result |-> rc.err, arg |-> rc.arg, memory |-> mem, ip |-> ip,
                  input |-> inp, emitted |-> <<>>, jumped |-> FALSE]
            ELSE IF rc.op = "Stop"
            THEN [result |-> "Ok", arg |-> 0, memory |-> mem, ip |-> ip,
                  input |-> inp, emitted |-> <<>>, jumped |-> FALSE]
            ELSE Executed(rc, Command_execute(rc, mem, inp))
    IN  IF ip > Len(mem)
        THEN [result |-> "UnexpectedEndOfFile", arg |-> 0, memory |-> mem, ip |-> ip,
              input |-> inp, emitted |-> <<>>, jumped |-> FALSE]
        ELSE Read(read_command(mem, ip))

\* ------------------------------------------------------ machine abstraction
\* IntCodeMachine: a memory, an instruction pointer and a run state.
IntCodeMachine_new(mem) ==
    [memory |-> mem, instruction_pointer |-> 0, state |-> "Running"]

IntCodeMachine_finished(m) == m.state = "Finished"

\* One cycle of the execution engine on machine m with the pending input
\* queue: decode at the instruction pointer, then suspend (Input, empty
\* queue), halt, fail, or apply the instruction and move the pointer.
\* stop tells whether the call returns after this cycle.
\* Input with an empty queue: the pointer is back at the opcode cell of the
\* instruction (not at the cursor, advance cells further) and the machine
\* awaits input; the call returns.
Suspended_at_cursor(m, advance, queue) ==
    [machine |-> [m EXCEPT !.state = "AwaitingInput",
                           !.instruction_pointer = @ + advance],
     err |-> "Ok", stop |-> TRUE, queue |-> queue, emitted |-> <<>>]

Suspended_as_error(m, advance, queue) ==
    [machine |-> m, err |-> "ParseError", stop |-> TRUE, queue |-> queue,
     emitted |-> <<>>]

Suspended(m, advance, queue) ==
    [machine |-> [m EXCEPT !.state = "AwaitingInput",
                           !.instruction_pointer = (@ + advance) - advance],
     err |-> "Ok", stop |-> TRUE, queue |-> queue, emitted |-> <<>>]

\* Halt: the machine is Finished; the call returns.
Halted(m, queue) ==
    [machine |-> [m EXCEPT !.state = "Finished"], err |-> "Ok",
     stop |-> TRUE, queue |-> queue, emitted |-> <<>>]

IntCodeMachine_cycle(m, queue) ==
    LET mem == m.memory
        ip == m.instruction_pointer
        Executed(rc, ex) ==
            IF ex.err # "Ok"
            THEN [machine |-> [m EXCEPT !.memory = ex.memory], err |-> ex.err,
                  stop |-> TRUE, queue |-> ex.input, emitted |-> <<>>]
            ELSE [machine |-> [m EXCEPT !.memory = ex.memory,
                                        !.instruction_pointer =
                                            IF ex.jumped THEN ex.jump
                                            ELSE ip + rc.advance],
                  err |-> "Ok", stop |-> FALSE, queue |-> ex.input,
                  emitted |-> ex.emitted]
        Read(rc) ==
            IF rc.err # "Ok"
            THEN [machine |-> m, err |-> rc.err, stop |-> TRUE,
                  queue |-> queue, emitted |-> <<>>]
            ELSE IF rc.op = "Input" /\ queue = <<>>
            THEN Suspended(m, rc.advance, queue)
            ELSE IF rc.op = "Stop"
            THEN Halted(m, queue)
            ELSE Executed(rc, Command_execute(rc, mem, queue))
    IN  Read(read_command(mem, ip))

\* The cycles of one execute call.  trace records, for every cycle, the
\* machine and the pending input it started from and the values it emitted.  A call still running
\* after MaxCycles cycles is reported as "Diverge".
RECURSIVE IntCodeMachine_run(_, _, _, _, _)
IntCodeMachine_run(m, queue, out, trace, fuel) ==
    LET Cycled(c, t) ==
            IF c.stop
            THEN [machine |-> c.machine, out |-> out \o c.emitted,
                  err |-> c.err, trace |-> t]
            ELSE IntCodeMachine_run(c.machine, c.queue, out \o c.emitted, t, fuel - 1)
        Traced(c) == Cycled(c, Append(trace, [before |-> m, queue |-> queue,
                                              emitted |-> c.emitted]))
    IN  IF fuel = 0
        THEN [machine |-> m, out |-> out, err |-> "Diverge", trace |-> trace]
        ELSE Traced(IntCodeMachine_cycle(m, queue))

\* execute(input) -> output: a Finished machine runs no cycle; any other
\* machine is Running again and cycles until it suspends, halts or fails.
\* The output starts empty at every call.
IntCodeMachine_execute_past_halt(m, input) ==
    IntCodeMachine_run([m EXCEPT !.state = "Running",
                                 !.instruction_pointer =
                                     IF IntCodeMachine_finished(m) THEN @ + 1 ELSE @],
                       input, <<>>, <<>>, MaxCycles)

IntCodeMachine_execute(m, input) ==
    IF IntCodeMachine_finished(m)
    THEN [machine |-> m, out |-> <<>>, err |-> "Ok", trace |-> <<>>]
    ELSE IntCodeMachine_run([m EXCEPT !.state = "Running"], input, <<>>, <<>>,
                            MaxCycles)

\* ---------------------------------------------------------------------- pipe
\* Pipe(a, b).execute(input): a.execute(input)?, then b.execute(its output).
\* ranB tells whether b was executed.
Pipe_execute_runs_both(a, b, input) ==
    LET Second(ra, rb) ==
            [a |-> ra.machine, b |-> rb.machine,
             out |-> IF ra.err # "Ok" THEN <<>> ELSE rb.out,
             err |-> IF ra.err # "Ok" THEN ra.err ELSE rb.err,
             ranB |-> TRUE, mid |-> ra.out]
        First(ra) == Second(ra, IntCodeMachine_execute(b, ra.out))
    IN  First(IntCodeMachine_execute(a, input))

Pipe_execute(a, b, input) ==
    LET Second(ra, rb) ==
            [a |-> ra.machine, b |-> rb.machine, out |-> rb.out, err |-> rb.err,
             ranB |-> TRUE, mid |-> ra.out]
        First(ra) ==
            IF ra.err # "Ok"
            THEN [a |-> ra.machine, b |-> b, out |-> <<>>, err |-> ra.err,
                  ranB |-> FALSE, mid |-> ra.out]
            ELSE Second(ra, IntCodeMachine_execute(b, ra.out))
    IN  First(IntCodeMachine_execute(a, input))

Pipe_finished_last_only(a, b) == IntCodeMachine_finished(b)

Pipe_finished(a, b) == IntCodeMachine_finished(a) \/ IntCodeMachine_finished(b)

\* -------------------------------------------------------------------- day 7
\* Box<dyn Machine>: an IntCodeMachine, or a Pipe of two boxes.
Boxed(m) == [kind |-> "IntCodeMachine", machine |-> m]

Piped(a, b) == [kind |-> "Pipe", first |-> a, second |-> b]

\* The machines of a box, in chain order.
RECURSIVE Machines(_)
Machines(u) ==
    IF u.kind = "IntCodeMachine" THEN <<u.machine>>
    ELSE Machines(u.first) \o Machines(u.second)

Box_finished_of_direct_members(u) ==
    IF u.kind = "IntCodeMachine" THEN IntCodeMachine_finished(u.machine)
    ELSE \/ u.first.kind = "IntCodeMachine" /\ IntCodeMachine_finished(u.first.machine)
         \/ u.second.kind = "IntCodeMachine" /\ IntCodeMachine_finished(u.second.machine)

\* machine.finished() through the box.
RECURSIVE Box_finished(_)
Box_finished(u) ==
    IF u.kind = "IntCodeMachine" THEN IntCodeMachine_finished(u.machine)
    ELSE Box_finished(u.first) \/ Box_finished(u.second)

\* machine.execute(input) through the box: the box after the call, the
\* output and the error.  A pipe executes its first member, then its second
\* on the first's output; the first error ends the call.
RECURSIVE Box_execute(_, _)
Box_execute(u, input) ==
    LET Single(r) == [unit |-> Boxed(r.machine), out |-> r.out, err |-> r.err]
        Second(ra, rb) ==
            [unit |-> Piped(ra.unit, rb.unit), out |-> rb.out, err |-> rb.err]
        First(ra) ==
            IF ra.err # "Ok"
            THEN [unit |-> Piped(ra.unit, u.second), out |-> <<>>, err |-> ra.err]
            ELSE Second(ra, Box_execute(u.second, ra.out))
    IN  IF u.kind = "IntCodeMachine"
        THEN Single(IntCodeMachine_execute(u.machine, input))
        ELSE First(Box_execute(u.first, input))

\* The loop of run_to_completion after a call returned r: Ok(out) once the
\* machine is finished, the error of a failing call, "Diverge" when rounds
\* calls did not finish it.
RECURSIVE run_to_completion_loop(_, _)
run_to_completion_loop(r, rounds) ==
    IF r.err # "Ok" THEN [err |-> r.err, out |-> <<>>]
    ELSE IF Box_finished(r.unit) THEN [err |-> "Ok", out |-> r.out]
    ELSE IF rounds = 0 THEN [err |-> "Diverge", out |-> <<>>]
    ELSE run_to_completion_loop(Box_execute(r.unit, r.out), rounds - 1)

run_to_completion(machine) ==
    run_to_completion_loop(Box_execute(machine, <<0>>), MaxRounds - 1)

\* permutations(5)
ChainLength == 5

\* phases.iter().permutations(5): the orderings of 5 distinct phases.
permutations(phases) ==
    {p \in [1..ChainLength -> phases] :
        \A i, j \in 1..ChainLength : i # j => p[i] # p[j]}

\* A fresh machine on the program, given its phase; the unwrap panics when
\* the call fails.
Primed(memory, start) == IntCodeMachine_execute(IntCodeMachine_new(memory), <<start>>)

\* machines.next().unwrap() folded with Pipe::new over the others:
\* Pipe(Pipe(Pipe(Pipe(m1, m2), m3), m4), m5).
RECURSIVE Chained(_, _, _)
Chained(memory, permutation, n) ==
    IF n = 1 THEN Boxed(Primed(memory, permutation[1]).machine)
    ELSE Piped(Chained(memory, permutation, n - 1),
               Boxed(Primed(memory, permutation[n]).machine))

\* One iteration of the loop of max_signal: value[0] of the permutation, or
\* how the iteration fails (the unwrap of a failing priming call and the
\* index into an empty value panic).
Signal(memory, permutation) ==
    LET Value(r) ==
            IF r.err # "Ok" THEN [err |-> r.err, value |-> 0]
            ELSE IF r.out = <<>> THEN [err |-> "Panic", value |-> 0]
            ELSE [err |-> "Ok", value |-> r.out[1]]
    IN  IF \E k \in 1..ChainLength : Primed(memory, permutation[k]).err # "Ok"
        THEN [err |-> "Panic", value |-> 0]
        ELSE Value(run_to_completion(Chained(memory, permutation, ChainLength)))

Greatest_as_least(S) == CHOOSE x \in S : \A y \in S : x <= y

\* cmp::max folded over the values.
Greatest(S) == CHOOSE x \in S : \A y \in S : x >= y

\* max_signal(memory, phases), given the signal of every permutation: the
\* outcomes it can return.  The first failing iteration ends it, in the
\* iteration order of the HashSet, which is any order; max.unwrap() panics
\* when there was no permutation.
max_signal_outcomes(signals) ==
    LET failed == {p \in DOMAIN signals : signals[p].err # "Ok"}
    IN  IF DOMAIN signals = {} THEN {[err |-> "Panic", value |-> 0]}
        ELSE IF failed # {} THEN {signals[p] : p \in failed}
        ELSE {[err |-> "Ok",
               value |-> Greatest({signals[p].value : p \in DOMAIN signals})]}

\* ----------------------------------------------------------------- programs
\* The programs of the tests of lib.rs.
TestPrograms ==
    { <<1, 0, 0, 0, 99>>,
      <<2, 3, 0, 3, 99>>,
      <<2, 4, 4, 5, 99, 0>>,
      <<1, 1, 1, 4, 99, 5, 6, 0, 99>>,
      <<1002, 4, 3, 4, 33>>,
      <<3, 2, 0>>,
      <<3, 12, 6, 12, 15, 1, 13, 14, 13, 4, 13, 99, -1, 0, 1, 9>>,
      <<3, 3, 1105, -1, 9, 1101, 0, 0, 12, 4, 12, 99, 1>> }

\* Programs that read and write values: echo, double, add one, echo twice,
\* emit before reading, sum of two inputs, echo for ever.
Echo == <<3, 0, 4, 0, 99>>

Double == <<3, 0, 1002, 0, 2, 0, 4, 0, 99>>

AddOne == <<3, 0, 1001, 0, 1, 0, 4, 0, 99>>

EchoTwice == <<3, 0, 4, 0, 3, 0, 4, 0, 99>>

EmitThenRead == <<104, 7, 3, 0, 4, 0, 99>>

SumOfTwo == <<3, 0, 3, 1, 1, 0, 1, 0, 4, 0, 99>>

EchoForEver == <<3, 0, 4, 0, 1105, 1, 0>>

IoPrograms == {Echo, Double, AddOne, EchoTwice, EmitThenRead, SumOfTwo, EchoForEver}

\* Programs that fail, halt at once, or never return.
EdgePrograms ==
    { <<5000>>, <<4, 0, 5000>>, <<1, 0, 0, 0, 5000, 0>>, <<-1>>, <<-99>>,
      <<10001, 1, 1, 0, 99>>, <<11002, 0, 0, 0, 99>>, <<103, 0, 99>>,
      <<10007, 1, 2, 0, 99>>, <<10008, 1, 1, 0, 99>>,
      <<10001, -1, 0, 0, 99>>, <<10001, 9, 0, 0, 99>>, <<12001, 0, 0, 0, 99>>,
      <<10001, 0, 0>>, <<3, 0, 10001, 0, 0, 0, 99>>,
      <<99>>, <<99, 5000, -1>>, <<1099, 3>>, <<299>>, <<104, 5, 99, 4, 0>>,
      <<1, 0, 0>>, <<1, 0, 0, 0>>, <<4, -1, 99>>, <<4, 7, 99>>, <<3, -1, 99>>,
      <<201, 0, 0, 0, 99>>, <<1105, 1, 7, 99>>, <<1105, 1, -1>>, <<1105, 1, 0>>,
      <<1106, 0, 3, 99>>, <<5, 0, 0>>, <<1107, 1, 2, 0, 99>>, <<1108, 1, 2, 0, 99>>,
      <<1, 0, 0, 7, 99>>, <<3, 9, 99>>, <<1, 0, 0, -1, 99>>, <<1, 9, -1, 0, 99>>,
      <<1, -1, 9, 0, 99>>, <<105, 1, -1>>, <<1005, 0, -1, 99>>, <<1105, 1, 4, 99>>,
      <<23901, 0, 0, 0, 99>>, <<203, 0, 99>>, <<2105, 1, 0>>, <<21107, 1, 2, 0, 99>>,
      <<-101>>, <<-199>>, <<-100>>, <<-3, 0, 99>>, <<1199>>, <<20004, 2, 99>>,
      <<1000001, 0, 0, 0, 99>>, <<100099>>, <<2000104, 7, 99>>, <<3000005, 1, 3, 99>> }

\* Every program of at most MaxProgLen cells over Alphabet.
Alphabet == {0, 3, 4, 99, 104, 5000}

SeqsUpTo(S, n) == UNION {[1..k -> S] : k \in 0..n}

GeneratedPrograms == SeqsUpTo(Alphabet, MaxProgLen)

Programs == TestPrograms \cup IoPrograms \cup EdgePrograms \cup GeneratedPrograms

\* The programs of the two stages of a pipe.
PipePrograms == {Echo, Double, AddOne, EmitThenRead, <<99>>, <<4, 0, 5000>>, <<4, 0, 99>>}

\* The programs of the tests of day-7.
Day7TestPrograms ==
    { <<3, 15, 3, 16, 1002, 16, 10, 16, 1, 16, 15, 15, 4, 15, 99, 0, 0>>,
      <<3, 23, 3, 24, 1002, 24, 10, 24, 1002, 23, -1, 23, 101, 5, 23, 23, 1, 24, 23, 23,
        4, 23, 99, 0, 0>>,
      <<3, 31, 3, 32, 1002, 32, 10, 32, 1001, 31, -2, 31, 1007, 31, 0, 33, 1002, 33, 7, 33,
        1, 33, 31, 31, 1, 32, 31, 31, 4, 31, 99, 0, 0, 0>> }

\* Reads its phase p; turns a first signal x into 2x + p and awaits a
\* second, which it turns into x + p, and halts.
TwoRounds == <<3, 0, 3, 1, 1002, 1, 2, 1, 1, 0, 1, 1, 4, 1,
               3, 1, 1, 0, 1, 1, 4, 1, 99>>

\* The programs max_signal is called on: the tests, a program that needs a
\* second round, one that halts before it emits, one that fails when it is
\* primed and one that fails when it is run.
Day7Programs ==
    Day7TestPrograms \cup {TwoRounds, <<99>>, <<3, 0, 5000>>, <<3, 0, 3, 1, 5000>>}

\* The phases of main, and a set too small to have a permutation.
PhaseSets == {0..4, 5..9, 0..3}

\* The programs of the three members of a nested pipe.
NestedPrograms == {Echo, Double, EmitThenRead, <<99>>, <<4, 0, 5000>>}

InputValues == {0, 5}

Inputs(n) == SeqsUpTo(InputValues, n)

\* The input the tests of lib.rs give (b"99", b"0"), and a negative line.
TestInputs == {<<99>>, <<0>>, <<-1>>}

\* -------------------------------------------------------------------- state
Units == {"A", "B"}

VARIABLES
    entry,                \* "run_intcode" (lib.rs), "machines" (day-5, day-7),
                          \* "max_signal" (day-7) or "pipes" (nested pipes)
    memory,               \* run_intcode, max_signal: the memory slice
    instruction_pointer,  \* run_intcode: the local instruction_pointer
    input,                \* run_intcode: the unread lines of input
    output,               \* run_intcode: the lines written to output
    result,               \* run_intcode: "Running", "Ok" or the error returned
    raised,               \* run_intcode: the value the error returned carries
    call,                 \* run_intcode: the memory and input it was called with
    cycles,               \* run_intcode: iterations its loop has taken, counted
                          \* up to MaxCycles
    jumped,               \* run_intcode: whether an iteration took a jump
    program,              \* the memory each machine was constructed from
    units,                \* the machines A and B
    piped,                \* whether A and B were moved into Pipe::new(A, B)
    log,                  \* per machine, the execute calls made on it
    calls,                \* execute calls the driver made
    supplied,             \* input values the driver supplied
    last,                 \* the last execute call of the driver, and what
                          \* finished() answers after it
    phases,               \* max_signal: its phases
    signals,              \* max_signal: value[0] of each permutation it ran
    answer,               \* max_signal: what it returned
    nested                \* the pipes Pipe(Pipe(A, B), C) and Pipe(A, Pipe(B, C))
                          \* and what the last call on each returned

vars == <<entry, memory, instruction_pointer, input, output, result, raised, call,
          cycles, jumped, program, units, piped, log, calls, supplied, last,
          phases, signals, answer, nested>>

run_vars == <<memory, instruction_pointer, input, output, result, raised, call,
              cycles, jumped>>

machine_vars == <<program, units, piped, log, calls, supplied, last>>

day7_vars == <<phases, signals, answer, nested>>

NoAnswer == [err |-> "-", value |-> 0]

\* Pipe(Pipe(A, B), C) and Pipe(A, Pipe(B, C)) of three fresh machines.
Nested(programs) ==
    [programs |-> programs,
     left |-> Piped(Piped(Boxed(IntCodeMachine_new(programs[1])),
                          Boxed(IntCodeMachine_new(programs[2]))),
                    Boxed(IntCodeMachine_new(programs[3]))),
     right |-> Piped(Boxed(IntCodeMachine_new(programs[1])),
                     Piped(Boxed(IntCodeMachine_new(programs[2])),
                           Boxed(IntCodeMachine_new(programs[3])))),
     called |-> FALSE,
     out |-> [side \in {"left", "right"} |-> <<>>],
     err |-> [side \in {"left", "right"} |-> "Ok"]]

NoCall ==
    [kind |-> "none", unit |-> "-", input |-> <<>>, out |-> <<>>, err |-> "Ok",
     trace |-> <<>>, mid |-> <<>>, ranB |-> FALSE, finished |-> FALSE]

Init ==
    \/ /\ entry = "run_intcode"
       /\ memory \in Programs
       /\ instruction_pointer = 0
       /\ input \in Inputs(MaxInputs) \cup TestInputs
       /\ output = <<>>
       /\ result = "Running"
       /\ raised = 0
       /\ call = [memory |-> memory, input |-> input]
       /\ cycles = 0
       /\ jumped = FALSE
       /\ program = [u \in Units |-> <<99>>]
       /\ units = [u \in Units |-> IntCodeMachine_new(<<99>>)]
       /\ piped = FALSE
       /\ log = [u \in Units |-> <<>>]
       /\ calls = 0
       /\ supplied = 0
       /\ last = NoCall
       /\ phases = {}
       /\ signals = <<>>
       /\ answer = NoAnswer
       /\ nested = Nested(<<<<99>>, <<99>>, <<99>>>>)
    \/ /\ entry = "machines"
       /\ memory = <<99>>
       /\ instruction_pointer = 0
       /\ input = <<>>
       /\ output = <<>>
       /\ result = "Ok"
       /\ raised = 0
       /\ call = [memory |-> memory, input |-> input]
       /\ cycles = 0
       /\ jumped = FALSE
       /\ \/ \E p \in Programs : program = [u \in Units |-> p]
          \/ program \in [Units -> PipePrograms]
       /\ units = [u \in Units |-> IntCodeMachine_new(program[u])]
       /\ piped = FALSE
       /\ log = [u \in Units |-> <<>>]
       /\ calls = 0
       /\ supplied = 0
       /\ last = NoCall
       /\ phases = {}
       /\ signals = <<>>
       /\ answer = NoAnswer
       /\ nested = Nested(<<<<99>>, <<99>>, <<99>>>>)

\* ------------------------------------------------------------------ actions
run_intcode_on_loaded_program ==
    /\ entry = "run_intcode"
    /\ result = "Running"
    /\ \E r \in {run_intcode_loop(call.memory, instruction_pointer, input)} :
           /\ memory' = r.memory
           /\ instruction_pointer' = r.ip
           /\ input' = r.input
           /\ output' = output \o r.emitted
           /\ result' = r.result
           /\ raised' = r.arg
           /\ jumped' = (jumped \/ r.jumped)
    /\ cycles' = IF cycles < MaxCycles THEN cycles + 1 ELSE cycles
    /\ UNCHANGED <<entry, call, machine_vars, day7_vars>>

\* One iteration of the loop of run_intcode.
run_intcode ==
    /\ entry = "run_intcode"
    /\ result = "Running"
    /\ \E r \in {run_intcode_loop(memory, instruction_pointer, input)} :
           /\ memory' = r.memory
           /\ instruction_pointer' = r.ip
           /\ input' = r.input
           /\ output' = output \o r.emitted
           /\ result' = r.result
           /\ raised' = r.arg
           /\ jumped' = (jumped \/ r.jumped)
    /\ cycles' = IF cycles < MaxCycles THEN cycles + 1 ELSE cycles
    /\ UNCHANGED <<entry, call, machine_vars, day7_vars>>

\* The driver may call while no call failed (day-5 and day-7 unwrap or
\* propagate every error) and its budget lasts.
MayCall(inp) ==
    /\ entry = "machines"
    /\ last.err = "Ok"
    /\ calls < MaxCalls
    /\ supplied + Len(inp) <= MaxInputs

Logged(m, out, err, inp) == [input |-> inp, out |-> out, err |-> err, state |-> m.state]

Machine_execute_on_shared_memory(u, inp) ==
    /\ MayCall(inp)
    /\ ~piped
    /\ \E r \in {IntCodeMachine_execute(units[u], inp)} :
           /\ r.err # "Diverge"
           /\ units' = [v \in Units |->
                           IF v = u THEN r.machine
                           ELSE IF program[v] = program[u]
                           THEN [units[v] EXCEPT !.memory = r.machine.memory]
                           ELSE units[v]]
           /\ log' = [log EXCEPT ![u] = Append(@, Logged(r.machine, r.out, r.err, inp))]
           /\ last' = [kind |-> "unit", unit |-> u, input |-> inp, out |-> r.out,
                       err |-> r.err, trace |-> r.trace, mid |-> <<>>,
                       ranB |-> FALSE,
                       finished |-> IntCodeMachine_finished(r.machine)]
    /\ calls' = calls + 1
    /\ supplied' = supplied + Len(inp)
    /\ UNCHANGED <<entry, run_vars, program, piped, day7_vars>>

\* machine.execute(inp) on a machine not (yet) in a pipe.
Machine_execute(u, inp) ==
    /\ MayCall(inp)
    /\ ~piped
    /\ \E r \in {IntCodeMachine_execute(units[u], inp)} :
           /\ r.err # "Diverge"
           /\ units' = [units EXCEPT ![u] = r.machine]
           /\ log' = [log EXCEPT ![u] = Append(@, Logged(r.machine, r.out, r.err, inp))]
           /\ last' = [kind |-> "unit", unit |-> u, input |-> inp, out |-> r.out,
                       err |-> r.err, trace |-> r.trace, mid |-> <<>>,
                       ranB |-> FALSE,
                       finished |-> IntCodeMachine_finished(r.machine)]
    /\ calls' = calls + 1
    /\ supplied' = supplied + Len(inp)
    /\ UNCHANGED <<entry, run_vars, program, piped, day7_vars>>

\* Pipe::new(A, B): the machines are moved into the pipe.
Pipe_new ==
    /\ entry = "machines"
    /\ last.err = "Ok"
    /\ ~piped
    /\ piped' = TRUE
    /\ UNCHANGED <<entry, run_vars, program, units, log, calls, supplied, last, day7_vars>>

\* pipe.execute(inp).
Pipe_call(inp) ==
    /\ MayCall(inp)
    /\ piped
    /\ \E r \in {Pipe_execute(units["A"], units["B"], inp)} :
           /\ r.err # "Diverge"
           /\ units' = [units EXCEPT !["A"] = r.a, !["B"] = r.b]
           /\ log' = [log EXCEPT
                         !["A"] = Append(@, Logged(r.a, r.mid,
                                                   IF r.ranB THEN "Ok" ELSE r.err, inp)),
                         !["B"] = IF r.ranB
                                  THEN Append(@, Logged(r.b, r.out, r.err, r.mid))
                                  ELSE @]
           /\ last' = [kind |-> "pipe", unit |-> "-", input |-> inp, out |-> r.out,
                       err |-> r.err, trace |-> <<>>, mid |-> r.mid, ranB |-> r.ranB,
                       finished |-> Pipe_finished(r.a, r.b)]
    /\ calls' = calls + 1
    /\ supplied' = supplied + Len(inp)
    /\ UNCHANGED <<entry, run_vars, program, piped, day7_vars>>

Next ==
    \/ run_intcode
    \/ \E u \in Units, inp \in Inputs(MaxInputs) : Machine_execute(u, inp)
    \/ Pipe_new
    \/ \E inp \in Inputs(MaxInputs) : Pipe_call(inp)

Spec == Init /\ [][Next]_vars

\* --------------------------------------------------------------- day 7 runs
\* max_signal on a program and a set of phases, or two nestings of a pipe of
\* three fresh machines.
Day7Init ==
    /\ instruction_pointer = 0
    /\ input = <<>>
    /\ output = <<>>
    /\ result = "Ok"
    /\ raised = 0
    /\ cycles = 0
    /\ jumped = FALSE
    /\ program = [u \in Units |-> <<99>>]
    /\ units = [u \in Units |-> IntCodeMachine_new(<<99>>)]
    /\ piped = FALSE
    /\ log = [u \in Units |-> <<>>]
    /\ calls = 0
    /\ supplied = 0
    /\ last = NoCall
    /\ signals = <<>>
    /\ answer = NoAnswer
    /\ \/ /\ entry = "max_signal"
          /\ memory \in Day7Programs
          /\ phases \in PhaseSets
          /\ nested = Nested(<<<<99>>, <<99>>, <<99>>>>)
       \/ /\ entry = "pipes"
          /\ memory = <<99>>
          /\ phases = {}
          /\ nested \in {Nested(ps) : ps \in [1..3 -> NestedPrograms]}
    /\ call = [memory |-> memory, input |-> input]

\* max_signal(memory, phases), run to its return.
max_signal ==
    /\ entry = "max_signal"
    /\ answer = NoAnswer
    /\ \E s \in {[p \in permutations(phases) |-> Signal(memory, p)]} :
           /\ \A p \in DOMAIN s : s[p].err # "Diverge"
           /\ signals' = s
           /\ answer' \in max_signal_outcomes(s)
    /\ UNCHANGED <<entry, run_vars, machine_vars, phases, nested>>

\* machine.execute(inp) on both nestings.
Nested_execute(inp) ==
    /\ entry = "pipes"
    /\ nested.err["left"] = "Ok"
    /\ nested.err["right"] = "Ok"
    /\ calls < MaxCalls
    /\ supplied + Len(inp) <= MaxInputs
    /\ \E l \in {Box_execute(nested.left, inp)}, r \in {Box_execute(nested.right, inp)} :
           /\ l.err # "Diverge"
           /\ r.err # "Diverge"
           /\ nested' = [nested EXCEPT !.left = l.unit, !.right = r.unit,
                                       !.called = TRUE,
                                       !.out = [left |-> l.out, right |-> r.out],
                                       !.err = [left |-> l.err, right |-> r.err]]
    /\ calls' = calls + 1
    /\ supplied' = supplied + Len(inp)
    /\ UNCHANGED <<entry, run_vars, program, units, piped, log, last,
                   phases, signals, answer>>

Day7Next ==
    \/ max_signal
    \/ \E inp \in Inputs(MaxInputs) : Nested_execute(inp)

Day7Spec == Day7Init /\ [][Day7Next]_vars

\* The tests of lib.rs: run_intcode on a test program, its loop run to the
\* return.
TestInit == Init /\ entry = "run_intcode" /\ memory \in TestPrograms

\* The loop of run_intcode has an iteration to take that changes the state:
\* ENABLED <<run_intcode>>_vars, computed from the current state.
Runnable ==
    /\ entry = "run_intcode"
    /\ result = "Running"
    /\ \E r \in {run_intcode_loop(memory, instruction_pointer, input)} :
           \/ r.result # "Running"
           \/ r.memory # memory
           \/ r.ip # instruction_pointer
           \/ r.input # input
           \/ r.emitted # <<>>
           \/ (r.jumped /\ ~jumped)
           \/ cycles < MaxCycles

\* Weak fairness of the loop, WF_vars(run_intcode) with Runnable for its
\* ENABLED: an iteration that can be taken is taken.
TestSpec ==
    TestInit /\ [][run_intcode]_vars /\ (<>[]Runnable => []<><<run_intcode>>_vars)

\* ------------------------------------------------------------------- claims
\* The values the Output instructions of the cycles k..Len(trace) emit, read
\* off the machine each cycle started from.
RECURSIVE OutputsOf(_, _)
OutputsOf(trace, k) ==
    IF k > Len(trace) THEN <<>>
    ELSE LET m0 == trace[k].before
             Emit(rc) ==
                 IF rc.err = "Ok" /\ rc.op = "Output"
                 THEN IF rc.params[1].mode = "Immediate" THEN <<rc.params[1].value>>
                      ELSE IF rc.params[1].value \in 0..(Len(m0.memory) - 1)
                      THEN <<m0.memory[rc.params[1].value + 1]>>
                      ELSE <<>>
                 ELSE <<>>
         IN  Emit(read_command(m0.memory, m0.instruction_pointer)) \o OutputsOf(trace, k + 1)

\* Machine u was run with an empty queue until it suspended and then resumed
\* with one input value.
Resumed(u) ==
    /\ Len(log[u]) = 2
    /\ log[u][1].input = <<>>
    /\ log[u][1].err = "Ok"
    /\ log[u][1].state = "AwaitingInput"
    /\ Len(log[u][2].input) = 1

\* C1: resumability law.  A machine that ran with an empty queue until it
\* suspended at an Input and was then resumed with execute([v]) has the
\* memory, instruction pointer and run state, the concatenated outputs and
\* the outcome of a fresh machine of the same program given execute([v]).
C1_Resumability ==
    \A u \in Units :
        Resumed(u) =>
            \E f \in {IntCodeMachine_run(IntCodeMachine_new(program[u]),
                                         log[u][2].input, <<>>, <<>>, 2 * MaxCycles)} :
                /\ f.machine = units[u]
                /\ f.out = log[u][1].out \o log[u][2].out
                /\ f.err = log[u][2].err

C1_Witness ==
    \E u \in Units :
        /\ Resumed(u)
        /\ log[u][2].out # <<>>
        /\ units[u].state = "Finished"
        /\ units[u].memory # program[u]

\* A cycle that starts at a well-formed Input instruction with nothing pending.
InputStarved(e) ==
    /\ e.queue = <<>>
    /\ read_command(e.before.memory, e.before.instruction_pointer).err = "Ok"
    /\ read_command(e.before.memory, e.before.instruction_pointer).op = "Input"

\* C2: a cycle that reaches an Input instruction with an empty queue is the
\* last of its call; the call returns without an error, the machine is
\* Awaiting-Input and not finished, its instruction pointer is the index of
\* the opcode cell of that Input, its memory is as that cycle found it, and
\* the call returns the outputs emitted so far in the call.
C2_AwaitingInput ==
    last.kind = "unit" =>
        \A k \in 1..Len(last.trace) :
            InputStarved(last.trace[k]) =>
                /\ k = Len(last.trace)
                /\ last.err = "Ok"
                /\ units[last.unit].state = "AwaitingInput"
                /\ ~last.finished
                /\ units[last.unit].instruction_pointer =
                       last.trace[k].before.instruction_pointer
                /\ Rem(units[last.unit].memory[units[last.unit].instruction_pointer + 1],
                       100) = 3
                /\ units[last.unit].memory = last.trace[k].before.memory
                /\ last.out = OutputsOf(last.trace, 1)

C2_Witness ==
    /\ last.kind = "unit"
    /\ Len(last.trace) > 1
    /\ InputStarved(last.trace[Len(last.trace)])
    /\ last.out # <<>>
    /\ units[last.unit].instruction_pointer > 0
    /\ units[last.unit].memory # program[last.unit]

\* A step that is one pipe.execute call.
PipeStep == piped /\ calls' = calls + 1

\* C3: pipe.execute(input) of A feeding B is B.execute(A.execute(input)): A
\* runs on the whole input, B on all that A returned, and B's output is
\* returned.  Fresh Double feeding AddOne maps [5] to [11]; AddOne feeding
\* Double maps [5] to [12].
C3_PipeComposition ==
    [][PipeStep =>
        /\ \E ra \in {IntCodeMachine_execute(units["A"], last'.input)} :
           \E rb \in {IntCodeMachine_execute(units["B"], ra.out)} :
               (ra.err = "Ok" /\ rb.err = "Ok") =>
                   /\ last'.err = "Ok"
                   /\ last'.out = rb.out
                   /\ units' = [A |-> ra.machine, B |-> rb.machine]
        /\ (calls = 0 /\ last'.input = <<5>> /\ program = [A |-> Double, B |-> AddOne])
               => last'.out = <<11>>
        /\ (calls = 0 /\ last'.input = <<5>> /\ program = [A |-> AddOne, B |-> Double])
               => last'.out = <<12>>
      ]_vars

C3_Witness ==
    /\ last.kind = "pipe"
    /\ calls = 1
    /\ program = [A |-> Double, B |-> AddOne]
    /\ last.input = <<5>>
    /\ last.out = <<11>>

\* C4: after a pipe.execute call, finished() of the pipe is true exactly when
\* at least one of its two members is Finished.
C4_PipeFinished ==
    last.kind = "pipe" =>
        (last.finished <=>
            (units["A"].state = "Finished" \/ units["B"].state = "Finished"))

C4_Witness ==
    /\ last.kind = "pipe"
    /\ last.finished
    /\ units["A"].state = "Finished"
    /\ units["B"].state # "Finished"

\* C5: Finished is absorbing: whatever call follows, a Finished machine stays
\* Finished with the same memory and instruction pointer.
C5_FinishedAbsorbing ==
    [][\A u \in Units : units[u].state = "Finished" => units'[u] = units[u]]_vars

C5_Witness ==
    \E u \in Units :
        /\ Len(log[u]) = 2
        /\ log[u][1].state = "Finished"
        /\ log[u][2].input # <<>>
        /\ units[u].state = "Finished"

\* The low two decimal digits of an instruction cell, sign kept.
OpcodeOf(cell) == IF cell >= 0 THEN cell % 100 ELSE -((-cell) % 100)

\* run_intcode is about to start a cycle on the cell at the pointer.
AtCell == entry = "run_intcode" /\ result = "Running" /\ instruction_pointer < Len(memory)

\* C6: a cycle whose cell at the instruction pointer has opcode 99 halts
\* without an error, changes no memory cell and emits nothing, whatever
\* follows the cell: run_intcode returns Ok, and a machine becomes Finished
\* in the last cycle of its call.
C6_HaltAt99 ==
    /\ [][(AtCell /\ OpcodeOf(memory[instruction_pointer + 1]) = 99) =>
            /\ result' = "Ok"
            /\ memory' = memory
            /\ output' = output
            /\ instruction_pointer' = instruction_pointer
         ]_vars
    /\ [](last.kind = "unit" =>
            \A k \in 1..Len(last.trace) :
                \E m0 \in {last.trace[k].before} :
                    (/\ m0.instruction_pointer < Len(m0.memory)
                     /\ OpcodeOf(m0.memory[m0.instruction_pointer + 1]) = 99) =>
                        /\ k = Len(last.trace)
                        /\ last.err = "Ok"
                        /\ last.finished
                        /\ units[last.unit].memory = m0.memory
                        /\ last.trace[k].emitted = <<>>)

C6_Witness ==
    /\ entry = "run_intcode"
    /\ result = "Ok"
    /\ instruction_pointer > 0
    /\ instruction_pointer + 1 = Len(memory)
    /\ output # <<>>

\* C7: an execute call that returns, returns exactly the values the Output
\* instructions of its own cycles emitted, in order; Echo given [v] returns
\* [v].
C7_ReturnedOutputs ==
    /\ (last.kind = "unit" /\ last.err = "Ok") => last.out = OutputsOf(last.trace, 1)
    /\ \A u \in Units :
           (program[u] = Echo /\ Len(log[u]) >= 1 /\ Len(log[u][1].input) = 1) =>
               (log[u][1].err = "Ok" /\ log[u][1].out = log[u][1].input)

C7_Witness ==
    /\ last.kind = "unit"
    /\ last.err = "Ok"
    /\ Len(log[last.unit]) = 2
    /\ log[last.unit][1].out = <<5>>
    /\ last.out = <<0>>

\* The decoded instruction writes, and its write-target operand is Immediate.
ImmediateTarget(rc) ==
    /\ rc.err = "Ok"
    /\ rc.op \in {"Add", "Multiply", "Input", "LessThan", "Equals"}
    /\ rc.params[Len(rc.params)].mode = "Immediate"

Resolves(p, mem) == p.mode = "Immediate" \/ p.value \in 0..(Len(mem) - 1)

\* The reads the instruction makes before it writes all succeed.
SourcesResolve(rc, mem, inp) ==
    IF rc.op = "Input" THEN inp # <<>>
    ELSE Resolves(rc.params[1], mem) /\ Resolves(rc.params[2], mem)

\* C8 as stated: every writing instruction with an Immediate write target
\* fails with ImmediateModeOutput and changes no memory cell.
C8_AlwaysImmediateModeOutput ==
    [][(AtCell /\ ImmediateTarget(read_command(memory, instruction_pointer))) =>
          (result' = "ImmediateModeOutput" /\ memory' = memory)
      ]_vars

\* C8 amended: every writing instruction with an Immediate write target fails
\* and changes no memory cell, the pointer staying on it; it fails with
\* ImmediateModeOutput when the reads that precede the write succeed, and with
\* the error of the failing read otherwise.
C8_ImmediateWriteRejected ==
    [][(AtCell /\ ImmediateTarget(read_command(memory, instruction_pointer))) =>
          /\ memory' = memory
          /\ instruction_pointer' = instruction_pointer
          /\ result' \notin {"Running", "Ok"}
          /\ SourcesResolve(read_command(memory, instruction_pointer), memory, input)
                 => result' = "ImmediateModeOutput"
          /\ ~SourcesResolve(read_command(memory, instruction_pointer), memory, input)
                 => result' \in {"InvalidAddress", "Panic", "ParseError"}
      ]_vars

C8_Witness ==
    /\ entry = "run_intcode"
    /\ result = "ImmediateModeOutput"
    /\ instruction_pointer = 2
    /\ memory[1] = 5

\* C9: a cell at the instruction pointer whose opcode is none of 1..8 and 99
\* fails the execution with InvalidOpCode, and the failing cycle changes no
\* memory cell: memory is as the completed instructions left it.
C9_InvalidOpCode ==
    [][(AtCell /\ OpcodeOf(memory[instruction_pointer + 1]) \notin (1..8) \cup {99}) =>
          /\ result' = "InvalidOpCode"
          /\ memory' = memory
          /\ instruction_pointer' = instruction_pointer
          /\ output' = output
      ]_vars

C9_Witness ==
    /\ entry = "run_intcode"
    /\ result = "InvalidOpCode"
    /\ memory = <<2, 0, 0, 0, 5000, 0>>
    /\ instruction_pointer = 4

\* C10: when A of a pipe fails, the pipe call returns A's error and B is not
\* executed (its memory, pointer and state are unchanged); when A succeeds
\* and B fails, the pipe call returns B's error.
C10_PipeError ==
    [][PipeStep =>
        \E ra \in {IntCodeMachine_execute(units["A"], last'.input)} :
            /\ ra.err # "Ok" =>
                   /\ last'.err = ra.err
                   /\ units'["A"] = ra.machine
                   /\ units'["B"] = units["B"]
                   /\ log'["B"] = log["B"]
            /\ ra.err = "Ok" =>
                   \E rb \in {IntCodeMachine_execute(units["B"], ra.out)} :
                       rb.err # "Ok" => last'.err = rb.err
      ]_vars

C10_Witness ==
    /\ last.kind = "pipe"
    /\ last.err = "InvalidOpCode"
    /\ program["B"] = Echo
    /\ units["B"] = IntCodeMachine_new(Echo)
    /\ units["A"].instruction_pointer = 2

\* The operand cells each opcode takes (spec 4.1).
OperandCount(opcode) ==
    CASE opcode \in {1, 2, 7, 8} -> 3
      [] opcode \in {5, 6} -> 2
      [] opcode \in {3, 4} -> 1
      [] OTHER -> 0

\* The mode digit of operand k of a non-negative instruction cell.
ModeDigit(cell, k) == ((cell \div 100) \div (10 ^ (k - 1))) % 10

\* The cell decodes: a known opcode whose operands all have mode digit 0 or 1.
Decodes(cell) ==
    /\ cell >= 0
    /\ cell % 100 \in (1..8) \cup {99}
    /\ \A k \in 1..OperandCount(cell % 100) : ModeDigit(cell, k) \in {0, 1}

\* C11: a cycle of run_intcode that starts with the pointer at or beyond the
\* memory length, or on a cell that decodes to an opcode with more operand
\* cells than the memory still holds after it, returns UnexpectedEndOfFile
\* and leaves every memory cell as it was; and run_intcode returns Ok only
\* from a cycle on a cell whose opcode is 99 (Halt).
C11_UnexpectedEndOfFile ==
    [][/\ ( /\ entry = "run_intcode"
            /\ result = "Running"
            /\ \/ instruction_pointer >= Len(memory)
               \/ /\ Decodes(memory[instruction_pointer + 1])
                  /\ OperandCount(memory[instruction_pointer + 1] % 100)
                         > Len(memory) - instruction_pointer - 1 )
          => (result' = "UnexpectedEndOfFile" /\ memory' = memory)
       /\ (entry = "run_intcode" /\ result = "Running" /\ result' = "Ok")
          => (AtCell /\ OpcodeOf(memory[instruction_pointer + 1]) = 99)]_vars

\* A taken jump beyond the end, refused by the next cycle.
C11_Witness ==
    /\ entry = "run_intcode"
    /\ result = "UnexpectedEndOfFile"
    /\ instruction_pointer > Len(memory)

\* Operand k of the instruction at ip: its raw cell, whether its mode digit
\* is 0 (Reference), and whether the instruction writes through it.
OperandAt(mem, ip, k, write) ==
    [raw |-> mem[ip + 1 + k], ref |-> ModeDigit(mem[ip + 1], k) = 0, write |-> write]

\* The accesses the instruction at ip makes through its operands, in the
\* order Command::execute makes them while each one before succeeds: the
\* two sources then the target; the target of an Input once a line was
\* read; the source of an Output; the condition of a jump, then its target
\* when the jump is taken.
AccessesAt(mem, ip, inp) ==
    LET opcode == mem[ip + 1] % 100
        cond == OperandAt(mem, ip, 1, FALSE)
        InRange(o) == o.raw \in 0..(Len(mem) - 1)
        value == IF cond.ref THEN mem[cond.raw + 1] ELSE cond.raw
    IN  CASE opcode \in {1, 2, 7, 8} ->
                <<OperandAt(mem, ip, 1, FALSE), OperandAt(mem, ip, 2, FALSE),
                  OperandAt(mem, ip, 3, TRUE)>>
          [] opcode = 3 -> IF inp = <<>> THEN <<>> ELSE <<OperandAt(mem, ip, 1, TRUE)>>
          [] opcode = 4 -> <<cond>>
          [] opcode \in {5, 6} ->
                IF cond.ref /\ ~InRange(cond) THEN <<cond>>
                ELSE IF (opcode = 5) = (value # 0)
                THEN <<cond, OperandAt(mem, ip, 2, FALSE)>>
                ELSE <<cond>>
          [] OTHER -> <<>>

\* The access fails: through a Reference operand outside the memory, or a
\* write through an Immediate operand.
AccessFails(o, mem) ==
    IF o.ref THEN o.raw \notin 0..(Len(mem) - 1) ELSE o.write

\* The operand of the first access of the instruction at ip that fails; an
\* Immediate source operand, which cannot fail, when none does.
FirstFailure(mem, ip, inp) ==
    LET acc == AccessesAt(mem, ip, inp)
        failing == {k \in 1..Len(acc) : AccessFails(acc[k], mem)}
    IN  IF failing = {} THEN [raw |-> 0, ref |-> FALSE, write |-> FALSE]
        ELSE acc[CHOOSE k \in failing : \A j \in failing : k <= j]

\* run_intcode is about to execute the instruction its cycle decodes.
AtInstruction ==
    /\ AtCell
    /\ Decodes(memory[instruction_pointer + 1])
    /\ OperandCount(memory[instruction_pointer + 1] % 100)
           <= Len(memory) - instruction_pointer - 1

\* C12: an instruction of run_intcode that reads or writes through a
\* Reference operand whose raw value is negative returns InvalidAddress and
\* changes no memory cell.
C12_NegativeAddress ==
    [][( /\ AtInstruction
         /\ FirstFailure(memory, instruction_pointer, input).ref
         /\ FirstFailure(memory, instruction_pointer, input).raw < 0 )
          => (result' = "InvalidAddress" /\ memory' = memory)]_vars

\* A write through a negative address, after both sources were read.
C12_Witness ==
    /\ entry = "run_intcode"
    /\ result = "InvalidAddress"
    /\ memory = <<1, 0, 0, -1, 99>>

\* C13: an instruction of run_intcode that reads or writes through a
\* Reference operand whose raw value is the memory length or more ends the
\* execution with a fatal error (the slice index panics): the memory keeps
\* its length and every cell, and no later cycle runs.
C13_AddressBeyondMemory ==
    [][/\ ( /\ AtInstruction
            /\ FirstFailure(memory, instruction_pointer, input).ref
            /\ FirstFailure(memory, instruction_pointer, input).raw >= Len(memory) )
          => (result' = "Panic" /\ memory' = memory /\ Len(memory') = Len(memory))
       /\ (entry = "run_intcode" /\ result = "Panic")
          => UNCHANGED <<memory, instruction_pointer, input, output, result>>]_vars

\* A write beyond the memory, after both sources were read.
C13_Witness ==
    /\ entry = "run_intcode"
    /\ result = "Panic"
    /\ memory = <<1, 0, 0, 7, 99>>

\* The operands of a cell with a known opcode whose mode digit is not 0 or 1.
BadModes(cell) ==
    {k \in 1..OperandCount(cell % 100) : ModeDigit(cell, k) \notin {0, 1}}

\* C14: a cycle of run_intcode on a cell with a known opcode and, for an
\* operand the opcode takes, a mode digit other than 0 and 1 returns
\* InvalidParameterMode carrying the offending digit of the lowest such
\* operand, and changes no memory cell.
C14_InvalidParameterMode ==
    [][( /\ AtCell
         /\ memory[instruction_pointer + 1] >= 0
         /\ memory[instruction_pointer + 1] % 100 \in 1..8
         /\ BadModes(memory[instruction_pointer + 1]) # {} )
          => /\ result' = "InvalidParameterMode"
             /\ \E k \in BadModes(memory[instruction_pointer + 1]) :
                    /\ \A j \in BadModes(memory[instruction_pointer + 1]) : k <= j
                    /\ raised' = ModeDigit(memory[instruction_pointer + 1], k)
             /\ memory' = memory]_vars

\* 23901: the digits of operands 1, 2, 3 are 9, 3, 2, all offending.
C14_Witness ==
    /\ entry = "run_intcode"
    /\ result = "InvalidParameterMode"
    /\ raised = 9
    /\ memory = <<23901, 0, 0, 0, 99>>

\* C15 as stated: while run_intcode is running, the instruction pointer is
\* within 0..memory length.
C15_PointerWithinMemory ==
    (entry = "run_intcode" /\ result = "Running")
        => instruction_pointer \in 0..Len(memory)

\* C15 amended: while run_intcode is running the instruction pointer is never
\* negative, and every cycle that executes an instruction starts with it
\* below the memory length; it is beyond the memory length only right after
\* a taken jump to such a target, and the next cycle then returns
\* UnexpectedEndOfFile without changing a memory cell.
C15_PointerBounds ==
    [][(entry = "run_intcode" /\ result = "Running") =>
          /\ instruction_pointer >= 0
          /\ result' = "Running" =>
                /\ instruction_pointer < Len(memory)
                /\ instruction_pointer' >= 0
                /\ instruction_pointer' > Len(memory') =>
                      /\ memory[instruction_pointer + 1] % 100 \in {5, 6}
                      /\ memory' = memory
          /\ instruction_pointer > Len(memory) =>
                (result' = "UnexpectedEndOfFile" /\ memory' = memory)]_vars

\* Still running, the pointer beyond the memory after a taken jump.
C15_Witness ==
    /\ entry = "run_intcode"
    /\ result = "Running"
    /\ instruction_pointer > Len(memory)

\* The value the instruction at ip reads through its source operand k.
SourceAt(mem, ip, k) ==
    IF ModeDigit(mem[ip + 1], k) = 0 THEN mem[mem[ip + 1 + k] + 1] ELSE mem[ip + 1 + k]

\* No access of the instruction at ip fails.
AllAccessesSucceed(mem, ip, inp) ==
    \A k \in 1..Len(AccessesAt(mem, ip, inp)) : ~AccessFails(AccessesAt(mem, ip, inp)[k], mem)

\* C16: an Add (Multiply) of run_intcode whose operands resolve stores the
\* sum (product) of its two source values in the cell its third operand
\* addresses, leaves every other cell, and advances the pointer by 4; so
\* [1,0,0,0,99] ends as [2,0,0,0,99], [2,3,0,3,99] as [2,3,0,6,99] and
\* [2,4,4,5,99,0] as [2,4,4,5,99,9801].
C16_AddMultiply ==
    [][/\ ( /\ AtInstruction
            /\ memory[instruction_pointer + 1] % 100 \in {1, 2}
            /\ AllAccessesSucceed(memory, instruction_pointer, input) )
          => /\ result' = "Running"
             /\ instruction_pointer' = instruction_pointer + 4
             /\ memory' =
                  [memory EXCEPT ![memory[instruction_pointer + 4] + 1] =
                      IF memory[instruction_pointer + 1] % 100 = 1
                      THEN SourceAt(memory, instruction_pointer, 1)
                               + SourceAt(memory, instruction_pointer, 2)
                      ELSE SourceAt(memory, instruction_pointer, 1)
                               * SourceAt(memory, instruction_pointer, 2)]
       /\ (entry = "run_intcode" /\ result = "Running" /\ result' # "Running")
          => /\ call.memory = <<1, 0, 0, 0, 99>>
                    => (result' = "Ok" /\ memory' = <<2, 0, 0, 0, 99>>)
             /\ call.memory = <<2, 3, 0, 3, 99>>
                    => (result' = "Ok" /\ memory' = <<2, 3, 0, 6, 99>>)
             /\ call.memory = <<2, 4, 4, 5, 99, 0>>
                    => (result' = "Ok" /\ memory' = <<2, 4, 4, 5, 99, 9801>>)]_vars

\* test_case_3 after its Multiply: 99 * 99 in cell 5, the pointer on cell 4.
C16_Witness ==
    /\ entry = "run_intcode"
    /\ result = "Running"
    /\ memory = <<2, 4, 4, 5, 99, 9801>>
    /\ instruction_pointer = 4

\* C17: every cycle of run_intcode decodes the cell the earlier instructions
\* left at the pointer, not the cell of the program as it was loaded: it
\* returns Ok exactly on a cell that now holds opcode 99, so
\* [1,1,1,4,99,5,6,0,99] runs the Multiply its Add wrote over the 99 of
\* cell 4 and ends as [30,1,1,4,2,5,6,0,99], and [3,2,0] given 99 halts on
\* the cell its Input wrote and ends as [3,2,99].
C17_SelfModification ==
    [][(entry = "run_intcode" /\ result = "Running") =>
          /\ result' = "Ok" <=>
                /\ instruction_pointer < Len(memory)
                /\ memory[instruction_pointer + 1] >= 0
                /\ memory[instruction_pointer + 1] % 100 = 99
          /\ result' # "Running" =>
                /\ call.memory = <<1, 1, 1, 4, 99, 5, 6, 0, 99>>
                       => (result' = "Ok" /\ memory' = <<30, 1, 1, 4, 2, 5, 6, 0, 99>>)
                /\ (call.memory = <<3, 2, 0>> /\ call.input = <<99>>)
                       => (result' = "Ok" /\ memory' = <<3, 2, 99>>)]_vars

\* Halted on a cell that the program as loaded did not hold.
C17_Witness ==
    /\ entry = "run_intcode"
    /\ result = "Ok"
    /\ call.memory = <<3, 2, 0>>
    /\ memory[instruction_pointer + 1] # call.memory[instruction_pointer + 1]

\* run_intcode was called on the program of test_case_7 or test_case_8 and
\* at least one line of input.
ZeroTestCalled ==
    /\ entry = "run_intcode"
    /\ call.memory \in {<<3, 12, 6, 12, 15, 1, 13, 14, 13, 4, 13, 99, -1, 0, 1, 9>>,
                        <<3, 3, 1105, -1, 9, 1101, 0, 0, 12, 4, 12, 99, 1>>}
    /\ call.input # <<>>

\* C18: run_intcode on the program of test_case_7 (jumps through Reference
\* operands) or of test_case_8 (through Immediate operands) and an input
\* whose first line is v returns Ok having written exactly one value, 0 when
\* v = 0 and 1 otherwise.
C18_ZeroTest ==
    /\ [](ZeroTestCalled =>
             /\ result \in {"Running", "Ok"}
             /\ result = "Running" => Len(output) <= 1
             /\ result = "Ok" => output = <<IF Head(call.input) = 0 THEN 0 ELSE 1>>)
    /\ ZeroTestCalled ~> (result = "Ok")

\* test_case_7 on a non-zero line.
C18_Witness ==
    /\ ZeroTestCalled
    /\ Len(call.memory) = 16
    /\ Head(call.input) = 5
    /\ result = "Ok"
    /\ output = <<1>>

\* The orderings of five distinct values of a set.
Orderings(S) == {p \in [1..5 -> S] : Cardinality({p[k] : k \in 1..5}) = 5}

\* max_signal returned Ok(value) on the program and the phases.
Returned(program7, phases7, value) ==
    (entry = "max_signal" /\ memory = program7 /\ phases = phases7 /\ answer # NoAnswer)
        => answer = [err |-> "Ok", value |-> value]

\* C19: when max_signal returns Ok, it ran the chain of five fresh primed
\* machines for every ordering of five distinct phases, and its value is the
\* greatest value[0] of these runs; on the phases 0..4 the programs of
\* test_case_1, 2 and 3 give 43210, 54321 and 65210, and a program whose
\* chain needs a second call, driven with the output of the first, gives
\* 108, and 288 on the phases 5..9.
C19_MaxSignal ==
    /\ (entry = "max_signal" /\ answer.err = "Ok") =>
          /\ DOMAIN signals = Orderings(phases)
          /\ \E p \in DOMAIN signals : signals[p].value = answer.value
          /\ \A p \in DOMAIN signals : signals[p].value <= answer.value
    /\ Returned(<<3, 15, 3, 16, 1002, 16, 10, 16, 1, 16, 15, 15, 4, 15, 99, 0, 0>>,
                0..4, 43210)
    /\ Returned(<<3, 23, 3, 24, 1002, 24, 10, 24, 1002, 23, -1, 23, 101, 5, 23, 23,
                  1, 24, 23, 23, 4, 23, 99, 0, 0>>, 0..4, 54321)
    /\ Returned(<<3, 31, 3, 32, 1002, 32, 10, 32, 1001, 31, -2, 31, 1007, 31, 0, 33,
                  1002, 33, 7, 33, 1, 33, 31, 31, 1, 32, 31, 31, 4, 31, 99, 0, 0, 0>>,
                0..4, 65210)
    /\ Returned(TwoRounds, 0..4, 108)
    /\ Returned(TwoRounds, 5..9, 288)

\* test_case_3 returned.
C19_Witness ==
    /\ entry = "max_signal"
    /\ Len(memory) = 34
    /\ answer = [err |-> "Ok", value |-> 65210]
    /\ signals[<<1, 0, 4, 3, 2>>].value = 65210

\* C20: after every sequence of execute calls given to both, the pipes
\* Pipe(Pipe(A, B), C) and Pipe(A, Pipe(B, C)) of machines A, B, C that
\* started alike returned the same output or the same error to the last
\* call, answer finished() alike, and hold A, B and C in the same states.
C20_PipeAssociative ==
    entry = "pipes" =>
        /\ nested.out["left"] = nested.out["right"]
        /\ nested.err["left"] = nested.err["right"]
        /\ Box_finished(nested.left) = Box_finished(nested.right)
        /\ Machines(nested.left) = Machines(nested.right)

\* Double, Echo, Double given 5: both nestings returned 20, all halted.
C20_Witness ==
    /\ entry = "pipes"
    /\ nested.called
    /\ nested.programs = <<Double, Echo, Double>>
    /\ nested.out["left"] = <<20>>
    /\ Box_finished(nested.left)

\* C21: an execute call on one machine changes no cell (nor the pointer or
\* the state) of the other machine, also when both were constructed from
\* the same program, and no call changes the program the caller constructed
\* them from; in a pipe call the first stage ends as its own execute on the
\* call's input leaves it, and the second as its own execute on the values
\* handed to it, or as it was when it was not run.
C21_MemoryIsolation ==
    [][entry = "machines" =>
          /\ program' = program
          /\ \A u \in Units :
                (last'.kind = "unit" /\ last'.unit # u) => units'[u] = units[u]
          /\ (piped /\ calls' = calls + 1) =>
                /\ units'["A"] = IntCodeMachine_execute(units["A"], last'.input).machine
                /\ units'["B"] = IF last'.ranB
                                 THEN IntCodeMachine_execute(units["B"], last'.mid).machine
                                 ELSE units["B"]]_vars

\* Two machines constructed from the same program: one has run and changed
\* its memory, the other still holds the program.
C21_Witness ==
    /\ entry = "machines"
    /\ program["A"] = program["B"]
    /\ units["A"].memory # program["A"]
    /\ units["B"] = IntCodeMachine_new(program["B"])
    /\ calls = 1

\* The operation each opcode selects (spec 4.1).
OperationOf(opcode) ==
    CASE opcode = 1 -> "Add"
      [] opcode = 2 -> "Multiply"
      [] opcode = 3 -> "Input"
      [] opcode = 4 -> "Output"
      [] opcode = 5 -> "JumpIfTrue"
      [] opcode = 6 -> "JumpIfFalse"
      [] opcode = 7 -> "LessThan"
      [] opcode = 8 -> "Equals"
      [] opcode = 99 -> "Exit"

\* C22: on every non-negative cell v run_intcode decodes whose v % 100 is
\* an opcode and whose needed mode digits are 0 or 1, the decoder gives the
\* operation of v % 100 and, for each operand k the opcode takes, the mode
\* of the decimal digit (v / 10^(k+1)) % 10, 0 Reference and 1 Immediate;
\* an Output so decoded writes the value its operand has in that mode, and
\* [1002,4,3,4,33] ends as [1002,4,3,4,99].
C22_DecoderDigits ==
    [][/\ (AtCell /\ Decodes(memory[instruction_pointer + 1])) =>
             /\ OpCode_try_from(memory[instruction_pointer + 1]).err = "Ok"
             /\ OpCode_try_from(memory[instruction_pointer + 1]).op
                    = OperationOf(memory[instruction_pointer + 1] % 100)
             /\ \A k \in 1..OperandCount(memory[instruction_pointer + 1] % 100) :
                    OpCode_try_from(memory[instruction_pointer + 1]).modes[k]
                        = IF ModeDigit(memory[instruction_pointer + 1], k) = 0
                          THEN "Reference" ELSE "Immediate"
       /\ ( /\ AtInstruction
            /\ memory[instruction_pointer + 1] % 100 = 4
            /\ result' = "Running" ) =>
             output' = Append(output, SourceAt(memory, instruction_pointer, 1))
       /\ ( /\ entry = "run_intcode"
            /\ result = "Running"
            /\ result' # "Running"
            /\ call.memory = <<1002, 4, 3, 4, 33>> ) =>
             (result' = "Ok" /\ memory' = <<1002, 4, 3, 4, 99>>)]_vars

\* test_case_5 returned: cell 4 times the literal 3, stored in cell 4.
C22_Witness ==
    /\ entry = "run_intcode"
    /\ call.memory = <<1002, 4, 3, 4, 33>>
    /\ memory = <<1002, 4, 3, 4, 99>>
    /\ result = "Ok"

\* run_intcode is about to execute a jump whose operands resolve (the
\* second is resolved only when the jump is taken).
AtJump ==
    /\ AtInstruction
    /\ memory[instruction_pointer + 1] % 100 \in {5, 6}
    /\ AllAccessesSucceed(memory, instruction_pointer, input)

\* The condition of the jump at the pointer holds.
JumpTaken ==
    (memory[instruction_pointer + 1] % 100 = 5)
        = (SourceAt(memory, instruction_pointer, 1) # 0)

\* C23 as stated: a jump whose condition holds sets the pointer to the value
\* of its second operand, any other advances it by 3, and neither changes
\* the memory or writes output.
C23_JumpSetsPointer ==
    [][AtJump =>
          /\ instruction_pointer' = IF JumpTaken
                                    THEN SourceAt(memory, instruction_pointer, 2)
                                    ELSE instruction_pointer + 3
          /\ memory' = memory
          /\ output' = output]_vars

\* C23 amended: a jump whose condition holds and whose second operand has a
\* value of 0 or more sets the pointer to that value and runs on; when the
\* value is negative the instruction returns InvalidAddress instead and the
\* pointer stays on it; a jump whose condition does not hold advances the
\* pointer by 3; none changes the memory or writes output.
C23_JumpSemantics ==
    [][AtJump =>
          /\ memory' = memory
          /\ output' = output
          /\ (JumpTaken /\ SourceAt(memory, instruction_pointer, 2) >= 0) =>
                /\ result' = "Running"
                /\ instruction_pointer' = SourceAt(memory, instruction_pointer, 2)
          /\ (JumpTaken /\ SourceAt(memory, instruction_pointer, 2) < 0) =>
                /\ result' = "InvalidAddress"
                /\ instruction_pointer' = instruction_pointer
          /\ ~JumpTaken =>
                /\ result' = "Running"
                /\ instruction_pointer' = instruction_pointer + 3]_vars

\* test_case_7 on 0: the Jump-if-false took the target of cell 15, 9.
C23_Witness ==
    /\ entry = "run_intcode"
    /\ Len(call.memory) = 16
    /\ call.input = <<0>>
    /\ result = "Running"
    /\ instruction_pointer = 9
    /\ output = <<>>

\* The cells in which two memories of one length differ.
ChangedCells(before, after) == {k \in 1..Len(before) : after[k] # before[k]}

\* C24: a cycle of run_intcode keeps the memory length and changes at most
\* one cell; a cell changes only in a cycle that goes on, on an Add,
\* Multiply, Input, Less-than or Equals, and it is the cell the last operand
\* of the instruction addresses; an Output, a jump, a Halt and every cycle
\* that returns an error change none.
C24_OneCellPerCycle ==
    [][(entry = "run_intcode" /\ result = "Running") =>
             /\ Len(memory') = Len(memory)
             /\ Cardinality(ChangedCells(memory, memory')) <= 1
             /\ ChangedCells(memory, memory') # {} =>
                   /\ AtInstruction
                   /\ result' = "Running"
                   /\ memory[instruction_pointer + 1] % 100 \in {1, 2, 3, 7, 8}
                   /\ ChangedCells(memory, memory') =
                          {memory[instruction_pointer + 1
                                  + OperandCount(memory[instruction_pointer + 1] % 100)] + 1}]_vars

\* [3,2,0] after its Input stored 5: cell 2 alone changed.
C24_Witness ==
    /\ entry = "run_intcode"
    /\ call.memory = <<3, 2, 0>>
    /\ memory = <<3, 2, 5>>
    /\ result = "Running"

\* C25: a cycle of run_intcode on a negative cell returns InvalidOpCode
\* carrying the cell, whatever its last two digits (-1, -99, -101, -199,
\* -100, -3), and changes neither the memory, the pointer nor the output.
C25_NegativeCell ==
    [][(AtCell /\ memory[instruction_pointer + 1] < 0) =>
          /\ result' = "InvalidOpCode"
          /\ raised' = memory[instruction_pointer + 1]
          /\ memory' = memory
          /\ instruction_pointer' = instruction_pointer
          /\ output' = output]_vars

\* -101, whose last two digits read 01 and whose floored remainder is 99.
C25_Witness ==
    /\ entry = "run_intcode"
    /\ result = "InvalidOpCode"
    /\ raised = -101
    /\ memory = <<-101>>

\* A non-negative cell without the digits above the mode digits of the
\* operands its opcode takes.
NeededDigits(cell) == cell % (10 ^ (2 + OperandCount(cell % 100)))

\* C26: the digits of a cell above the mode digits its opcode takes are
\* neither validated nor used by run_intcode: a non-negative cell that ends
\* in 99 returns Ok (299, 1199, 100099), a cell whose needed mode digits are
\* 0 or 1 never returns InvalidParameterMode and decodes as the cell without
\* the other digits does, and [20004,2,99] writes cell 2 and halts.
C26_UnusedModeDigits ==
    [][(AtCell /\ memory[instruction_pointer + 1] >= 0) =>
          /\ memory[instruction_pointer + 1] % 100 = 99 =>
                (result' = "Ok" /\ memory' = memory /\ output' = output)
          /\ Decodes(memory[instruction_pointer + 1]) =>
                /\ result' # "InvalidParameterMode"
                /\ OpCode_try_from(memory[instruction_pointer + 1])
                       = OpCode_try_from(NeededDigits(memory[instruction_pointer + 1]))
          /\ (call.memory = <<20004, 2, 99>> /\ result' # "Running") =>
                (result' = "Ok" /\ output' = <<99>>)]_vars

\* [20004,2,99] returned: an Output through a Reference operand.
C26_Witness ==
    /\ entry = "run_intcode"
    /\ call.memory = <<20004, 2, 99>>
    /\ result = "Ok"
    /\ output = <<99>>

\* The cycles within which an execution that takes no jump ends: the memory
\* length, and one for the empty memory, whose first cycle fails.
CycleBound(mem) == IF Len(mem) = 0 THEN 1 ELSE Len(mem)

\* A cycle of run_intcode that takes no jump and after which the loop goes on
\* moves the pointer on by the cells of its instruction.
NoJumpAdvance ==
    (entry = "run_intcode" /\ result = "Running" /\ result' = "Running"
       /\ ~(AtJump /\ JumpTaken)) =>
        /\ AtInstruction
        /\ instruction_pointer' = instruction_pointer + 1
               + OperandCount(memory[instruction_pointer + 1] % 100)
        /\ instruction_pointer' > instruction_pointer

\* The literal bound of C27: with no jump taken so far, run_intcode has run
\* at most memory-length cycles, and has returned once it ran that many.
C27_WithinMemoryLength ==
    [][/\ NoJumpAdvance
       /\ (entry = "run_intcode" /\ ~jumped') =>
             /\ cycles' <= Len(memory')
             /\ cycles' = Len(memory') => result' # "Running"]_vars

\* C27: a cycle of run_intcode that takes no jump and goes on adds the cell
\* count of its instruction to the pointer (4 for Add, Multiply, Less-than,
\* Equals, 2 for Input, Output, 3 for an untaken jump), and while no jump has
\* been taken run_intcode has run at most memory-length cycles and has
\* returned (Ok or an error) once it ran that many; on the empty memory it
\* returns UnexpectedEndOfFile from its first cycle.
C27_NoJumpTermination ==
    [][/\ NoJumpAdvance
       /\ (entry = "run_intcode" /\ ~jumped') =>
             /\ cycles' <= CycleBound(memory')
             /\ cycles' = CycleBound(memory') => result' # "Running"
       /\ (entry = "run_intcode" /\ result = "Running" /\ memory = <<>>) =>
             result' = "UnexpectedEndOfFile"]_vars

\* [3,0] with an input line: an Input cycle that moved the pointer on by 2,
\* then the end of the memory, in as many cycles as the memory has cells.
C27_Witness ==
    /\ entry = "run_intcode"
    /\ call.memory = <<3, 0>>
    /\ ~jumped
    /\ cycles = Len(memory)
    /\ instruction_pointer = 2
    /\ result = "UnexpectedEndOfFile"

====
